---- MODULE Spec2Model ----
(***************************************************************************)
(* A model of sdl_wrapper's ScreenContextManager (src/src/lib.rs): the     *)
(* CPU-side framebuffer, the draw color, the conversion of f32 color       *)
(* components to bytes, construction with its failure points, and the      *)
(* present / present_async upload path to the window.                      *)
(***************************************************************************)
EXTENDS Integers, Sequences, FiniteSets, TLC

VARIABLES
    phase,              \* "start" before new(), "open", "failed" (new returned Err), "panicked"
    width,              \* ScreenContextManager.width
    height,             \* ScreenContextManager.height
    width_times_color,  \* ScreenContextManager.width_times_color
    framebuffer,        \* ScreenContextManager.framebuffer: Vec<Pixel>, as a 1-based sequence
    color,              \* ScreenContextManager.color
    window,             \* the image the window shows (what canvas.present() last put there)
    pending,            \* number of events queued in event_pump
    future,             \* "none", or "created": a present_async() future not yet polled
    ret,                \* the last call: its name, arguments, result and the SDL calls it made
    plotted,            \* history: per (x,y), the color of the last in-range plot_pixel there
    onlyDrawn,          \* history: no clear, clear_with_rgb or out-of-range plot_pixel so far
    colorArgs,          \* history: the arguments of the last set_color, <<>> before the first
    requested,          \* history: the <<width, height>> passed to new()
    budget              \* number of calls the caller still makes on the surface

vars == <<phase, width, height, width_times_color, framebuffer, color, window,
          pending, future, ret, plotted, onlyDrawn, colorArgs, requested, budget>>

----------------------------------------------------------------------------
(* Bounds of the model *)

MaxPixels == 4
MaxCalls == 3
MaxDrawCalls == 5
MaxEvents == 1

----------------------------------------------------------------------------
(* f32 arithmetic.  A non-negative, normal f32 is [m |-> mantissa, e |-> k] *)
(* with value m * 2^(-k) and 2^23 <= m < 2^24; zero is m = 0.               *)

Pow2(n) == IF n <= 0 THEN 1 ELSE 2 ^ n

F32(m, e) == [m |-> m, e |-> e]

F32_0      == F32(0, 0)            \* 0.0
F32_1      == F32(8388608, 23)     \* 1.0
F32_2      == F32(8388608, 22)     \* 2.0
F32_0_5    == F32(8388608, 24)     \* 0.5
F32_0_7    == F32(11744051, 24)    \* 0.7f32 = 0.699999988079071044921875
F32_0_2    == F32(13421773, 26)    \* 0.2f32 = 0.20000000298023223876953125
F32_0_002  == F32(8589935, 32)     \* 0.002f32
F32_0_998  == F32(16743662, 24)    \* 0.998f32

\* 0 <= f <= 1, the range the documentation of set_color and clear asks for
InUnitRange(f) == f.m = 0 \/ f.e >= 24 \/ (f.e = 23 /\ f.m = 8388608)

\* f * 255.0 in f32: the exact product 255 * m rounded to 24 significant bits,
\* ties to even.  255 * m needs up to 32 bits, so it is kept as hi * 256 + lo.
F32Mul255(f) ==
    IF f.m = 0 THEN F32_0
    ELSE LET mh   == f.m \div 256
             ml   == f.m % 256
             hi   == 255 * mh + (255 * ml) \div 256
             lo   == (255 * ml) % 256
             s    == IF hi >= 8388608 THEN 8 ELSE 7
             q0   == IF s = 8 THEN hi ELSE 2 * hi + lo \div 128
             rem  == IF s = 8 THEN lo ELSE lo % 128
             half == IF s = 8 THEN 128 ELSE 64
             q    == IF rem > half \/ (rem = half /\ q0 % 2 = 1) THEN q0 + 1 ELSE q0
         IN  IF q = 16777216 THEN F32(8388608, f.e - s - 1) ELSE F32(q, f.e - s)

\* f32::round: nearest integer, halfway cases away from zero (f >= 0 here).
\* The result is an integer-valued f32, given as the integer.
F32Round(f) ==
    IF f.m = 0 \/ f.e >= 26 THEN 0
    ELSE IF f.e <= 0 THEN f.m * Pow2(-f.e)
    ELSE (f.m + Pow2(f.e - 1)) \div Pow2(f.e)

\* `as u8` on an integer-valued f32: a saturating cast
AsU8(n) == IF n > 255 THEN 255 ELSE IF n < 0 THEN 0 ELSE n

\* (v * 255.0).round() as u8
ToByte(v) == AsU8(F32Round(F32Mul255(v)))

----------------------------------------------------------------------------
(* Pixels, the framebuffer and its upload *)

\* crate::constants::COLOR_DEPTH, the bytes per pixel of a row of the upload
COLOR_DEPTH == 3

\* bytes per pixel of PixelFormatEnum::RGB24
RGB24_BYTES == 3

Pixel(r, g, b) == [r |-> r, g |-> g, b |-> b]

Black == Pixel(0, 0, 0)

\* Pixel { r: (r * 255.0).round() as u8, g: ..., b: ... }
\* faulty variant: the channels stored in b, g, r order
PixelOfBgr(r, g, b) == Pixel(ToByte(b), ToByte(g), ToByte(r))

PixelOf(r, g, b) == Pixel(ToByte(r), ToByte(g), ToByte(b))

\* vec![Pixel { r: 0, g: 0, b: 0 }; (width * height) as usize]
\* faulty variant: one entry per byte instead of one per pixel
EmptyFramebufferBytes(w, h) == [i \in 1..(w * h * COLOR_DEPTH) |-> Black]

EmptyFramebuffer(w, h) == [i \in 1..(w * h) |-> Black]

\* self.framebuffer.fill(p)
\* faulty variant: the first entry is left out of the fill
FillFromSecond(v, p) == [i \in 1..Len(v) |-> IF i = 1 THEN v[i] ELSE p]

Fill(v, p) == [i \in 1..Len(v) |-> p]

\* self.framebuffer[i] = p, for i < len
\* faulty variant: three consecutive entries written, as for a byte buffer
StoreThree(v, i, p) ==
    [k \in 1..Len(v) |-> IF k \in (i + 1)..(i + 3) THEN p ELSE v[k]]

Store(v, i, p) == [v EXCEPT ![i + 1] = p]

\* (y * self.width + x) as usize
\* faulty variant: x and y exchanged
IndexColumnMajor(x, y, w) == x * w + y

\* (u32 arithmetic; the coordinates and sizes of the model stay far below 2^32)
Index(x, y, w) == y * w + x

\* bytemuck::cast_slice(&self.framebuffer): Pixel is repr(C) { r, g, b }
cast_slice(fb) ==
    [k \in 1..(3 * Len(fb)) |->
        LET p == fb[(k - 1) \div 3 + 1]
            c == (k - 1) % 3
        IN  IF c = 0 THEN p.r ELSE IF c = 1 THEN p.g ELSE p.b]

\* Texture::update(None, bytes, pitch) on a w x h RGB24 texture: row y of the
\* texture is read from bytes[y * pitch ..], three bytes per pixel.
TextureUpdate(bytes, pitch, w, h) ==
    [i \in 1..(w * h) |->
        LET x == (i - 1) % w
            y == (i - 1) \div w
            o == y * pitch + x * RGB24_BYTES
        IN  Pixel(bytes[o + 1], bytes[o + 2], bytes[o + 3])]

----------------------------------------------------------------------------
(* Error conversions performed by `?` *)

Ok == [ok |-> TRUE, err |-> "none"]

Err(e) == [ok |-> FALSE, err |-> e]

\* the error type each fallible step of new() returns
InitSteps == <<"init", "video", "window", "canvas", "event_pump">>

InitStepError(step) ==
    CASE step = "init"       -> "String"
      [] step = "video"      -> "String"
      [] step = "window"     -> "WindowBuildError"
      [] step = "canvas"     -> "IntegerOrSdlError"
      [] step = "event_pump" -> "String"

\* enum InitError with its #[from] conversions and impl From<String>
\* faulty variant: every error turned into Sdl2InitError
InitErrorFromString(e) == "Sdl2InitError"

InitErrorFrom(e) ==
    CASE e = "String"            -> "Sdl2InitError"
      [] e = "WindowBuildError"  -> "WindowBuildError"
      [] e = "IntegerOrSdlError" -> "CanvasBuildError"

\* the error type each fallible step of present() returns
PresentSteps == <<"create_texture_streaming", "update", "copy">>

PresentStepError(step) ==
    CASE step = "create_texture_streaming" -> "TextureValueError"
      [] step = "update"                   -> "UpdateTextureError"
      [] step = "copy"                     -> "String"

\* enum PresentationError with its #[from] conversions and impl From<String>
PresentationErrorFrom(e) ==
    CASE e = "String"             -> "CanvasCopy"
      [] e = "UpdateTextureError" -> "TextureUpdate"
      [] e = "TextureValueError"  -> "TextureValue"

----------------------------------------------------------------------------
(* Inputs *)

Range(s) == {s[i] : i \in DOMAIN s}

\* window sizes: positive, with at most MaxPixels pixels
Sizes == {d \in (1..MaxPixels) \X (1..MaxPixels) : d[1] * d[2] <= MaxPixels}

\* arguments of set_color
ColorInputs ==
    { <<F32_1, F32_0, F32_0>>,
      <<F32_0, F32_1, F32_0>>,
      <<F32_0_7, F32_0_2, F32_0_5>> }

\* arguments of clear; 2.0 is outside the documented range
ShadowInputs == { F32_0_5, F32_2 }

\* arguments of clear_with_rgb
ClearRgbInputs == { <<F32_0_998, F32_0_002, F32_1>> }

NoPixel == [r |-> -1, g |-> -1, b |-> -1]

NoImage == <<>>

Call(op, args, result, steps) ==
    [op |-> op, args |-> args, result |-> result, steps |-> steps]

----------------------------------------------------------------------------
(* The state before ScreenContextManager::new is called *)

Start(n) ==
    /\ phase = "start"
    /\ width = 0
    /\ height = 0
    /\ width_times_color = 0
    /\ framebuffer = <<>>
    /\ color = Black
    /\ window = NoImage
    /\ pending = 0
    /\ future = "none"
    /\ ret = Call("none", <<>>, Ok, <<>>)
    /\ plotted = <<>>
    /\ onlyDrawn = TRUE
    /\ colorArgs = <<>>
    /\ requested = <<>>
    /\ budget = n

Init == Start(MaxCalls)

\* ScreenContextManager::new(title, w, h); fail is the step that returns Err,
\* or "none".  The steps run in order and `?` returns at the first Err.
New(w, h, fail) ==
    /\ phase = "start"
    /\ IF fail = "none"
       THEN /\ phase' = "open"
            /\ width' = w
            /\ height' = h
            /\ width_times_color' = w * COLOR_DEPTH
            /\ framebuffer' = EmptyFramebuffer(w, h)
            /\ color' = Black
            /\ plotted' = [c \in (0..(w - 1)) \X (0..(h - 1)) |-> NoPixel]
            /\ ret' = Call("new", <<w, h, fail>>, Ok, <<>>)
       ELSE /\ phase' = "failed"
            /\ ret' = Call("new", <<w, h, fail>>,
                           Err(InitErrorFrom(InitStepError(fail))), <<>>)
            /\ UNCHANGED <<width, height, width_times_color, framebuffer, color, plotted>>
    /\ requested' = <<w, h>>
    /\ UNCHANGED <<window, pending, future, onlyDrawn, colorArgs, budget>>

\* a method can be called: the surface exists, no future borrows it mutably
Callable == phase = "open" /\ future = "none" /\ budget > 0

get_width == width

get_height == height

\* set_color(r, g, b)
SetColor(r, g, b) ==
    /\ Callable
    /\ color' = PixelOf(r, g, b)
    /\ ret' = Call("set_color", <<r, g, b>>, Ok, <<>>)
    /\ colorArgs' = <<r, g, b>>
    /\ budget' = budget - 1
    /\ UNCHANGED <<phase, width, height, width_times_color, framebuffer, window,
                   pending, future, plotted, onlyDrawn, requested>>

\* plot_pixel(x, y): indexing a Vec past its length panics
PlotPixel(x, y) ==
    /\ Callable
    /\ LET i == Index(x, y, width)
       IN  IF i < Len(framebuffer)
           THEN /\ framebuffer' = Store(framebuffer, i, color)
                /\ ret' = Call("plot_pixel", <<x, y>>, Ok, <<>>)
                /\ phase' = phase
           ELSE /\ framebuffer' = framebuffer
                /\ ret' = Call("plot_pixel", <<x, y>>, Err("panic"), <<>>)
                /\ phase' = "panicked"
    /\ IF x < width /\ y < height
       THEN plotted' = [plotted EXCEPT ![<<x, y>>] = color] /\ onlyDrawn' = onlyDrawn
       ELSE plotted' = plotted /\ onlyDrawn' = FALSE
    /\ budget' = budget - 1
    /\ UNCHANGED <<width, height, width_times_color, color, window, pending, future,
                   colorArgs, requested>>

\* clear(shadow)
Clear(shadow) ==
    /\ Callable
    /\ framebuffer' = Fill(framebuffer, PixelOf(shadow, shadow, shadow))
    /\ ret' = Call("clear", <<shadow>>, Ok, <<>>)
    /\ onlyDrawn' = FALSE
    /\ budget' = budget - 1
    /\ UNCHANGED <<phase, width, height, width_times_color, color, window, pending,
                   future, plotted,
                   colorArgs, requested>>

\* clear_with_rgb(r, g, b)
\* faulty variant: the clear color also becomes the draw color
ClearWithRgbSetsColor(r, g, b) ==
    /\ Callable
    /\ framebuffer' = Fill(framebuffer, PixelOf(r, g, b))
    /\ color' = PixelOf(r, g, b)
    /\ ret' = Call("clear_with_rgb", <<r, g, b>>, Ok, <<>>)
    /\ onlyDrawn' = FALSE
    /\ budget' = budget - 1
    /\ UNCHANGED <<phase, width, height, width_times_color, window, pending,
                   future, plotted,
                   colorArgs, requested>>

ClearWithRgb(r, g, b) ==
    /\ Callable
    /\ framebuffer' = Fill(framebuffer, PixelOf(r, g, b))
    /\ ret' = Call("clear_with_rgb", <<r, g, b>>, Ok, <<>>)
    /\ onlyDrawn' = FALSE
    /\ budget' = budget - 1
    /\ UNCHANGED <<phase, width, height, width_times_color, color, window, pending,
                   future, plotted,
                   colorArgs, requested>>

----------------------------------------------------------------------------
(* Presenting.  fail is the step that returns Err, or "none"; each function *)
(* gives the call's result, the SDL calls it made in order, and the image   *)
(* the window shows afterwards.                                             *)

\* faulty variant: canvas.present() is never called
present_async_no_present(fail) ==
    LET create  == <<"create_texture_streaming", "RGB24", width, height>>
        bytes   == cast_slice(framebuffer)
        update  == <<"update", bytes, width_times_color>>
        err     == Err(PresentationErrorFrom(PresentStepError(fail)))
    IN  IF fail = "create_texture_streaming"
        THEN [result |-> err, steps |-> <<create>>, window |-> window]
        ELSE IF fail = "update"
        THEN [result |-> err, steps |-> <<create, update>>, window |-> window]
        ELSE IF fail = "copy"
        THEN [result |-> err, steps |-> <<create, update, <<"copy">>>>, window |-> window]
        ELSE [result |-> Ok, steps |-> <<create, update, <<"copy">>>>, window |-> window]

\* async fn present_async: the body of the future; it holds no .await
present_async(fail) ==
    LET create  == <<"create_texture_streaming", "RGB24", width, height>>
        bytes   == cast_slice(framebuffer)
        update  == <<"update", bytes, width_times_color>>
        texture == TextureUpdate(bytes, width_times_color, width, height)
        err     == Err(PresentationErrorFrom(PresentStepError(fail)))
    IN  IF fail = "create_texture_streaming"
        THEN [result |-> err, steps |-> <<create>>, window |-> window]
        ELSE IF fail = "update"
        THEN [result |-> err, steps |-> <<create, update>>, window |-> window]
        ELSE IF fail = "copy"
        THEN [result |-> err, steps |-> <<create, update, <<"copy">>>>, window |-> window]
        ELSE [result |-> Ok, steps |-> <<create, update, <<"copy">>, <<"present">>>>,
              window |-> texture]

\* faulty variant: the error of canvas.copy is ignored
present_shows_on_copy_error(fail) ==
    LET create  == <<"create_texture_streaming", "RGB24", width, height>>
        bytes   == cast_slice(framebuffer)
        update  == <<"update", bytes, width_times_color>>
        texture == TextureUpdate(bytes, width_times_color, width, height)
        err     == Err(PresentationErrorFrom(PresentStepError(fail)))
    IN  IF fail = "create_texture_streaming"
        THEN [result |-> err, steps |-> <<create>>, window |-> window]
        ELSE IF fail = "update"
        THEN [result |-> err, steps |-> <<create, update>>, window |-> window]
        ELSE IF fail = "copy"
        THEN [result |-> err, steps |-> <<create, update, <<"copy">>, <<"present">>>>,
              window |-> texture]
        ELSE [result |-> Ok, steps |-> <<create, update, <<"copy">>, <<"present">>>>,
              window |-> texture]

\* fn present
present(fail) ==
    LET create  == <<"create_texture_streaming", "RGB24", width, height>>
        bytes   == cast_slice(framebuffer)
        update  == <<"update", bytes, width_times_color>>
        texture == TextureUpdate(bytes, width_times_color, width, height)
        err     == Err(PresentationErrorFrom(PresentStepError(fail)))
    IN  IF fail = "create_texture_streaming"
        THEN [result |-> err, steps |-> <<create>>, window |-> window]
        ELSE IF fail = "update"
        THEN [result |-> err, steps |-> <<create, update>>, window |-> window]
        ELSE IF fail = "copy"
        THEN [result |-> err, steps |-> <<create, update, <<"copy">>>>, window |-> window]
        ELSE [result |-> Ok, steps |-> <<create, update, <<"copy">>, <<"present">>>>,
              window |-> texture]

\* screen.present()
Present(fail) ==
    /\ Callable
    /\ LET run == present(fail)
       IN  /\ window' = run.window
           /\ ret' = Call("present", <<fail>>, run.result, run.steps)
    /\ budget' = budget - 1
    /\ UNCHANGED <<phase, width, height, width_times_color, framebuffer, color,
                   pending, future, plotted, onlyDrawn,
                   colorArgs, requested>>

\* screen.present_async(): builds the future, which borrows the surface
\* mutably; nothing of the body runs before the future is polled
PresentAsyncCall ==
    /\ Callable
    /\ future' = "created"
    /\ ret' = Call("present_async", <<>>, Ok, <<>>)
    /\ UNCHANGED <<phase, width, height, width_times_color, framebuffer, color,
                   window, pending, plotted, onlyDrawn, budget,
                   colorArgs, requested>>

\* .await / block_on: the first poll runs the whole body and returns Ready
PresentAsyncPoll(fail) ==
    /\ phase = "open"
    /\ future = "created"
    /\ LET run == present_async(fail)
       IN  /\ window' = run.window
           /\ ret' = Call("present_async.await", <<fail>>, run.result, run.steps)
    /\ future' = "none"
    /\ budget' = budget - 1
    /\ UNCHANGED <<phase, width, height, width_times_color, framebuffer, color,
                   pending, plotted, onlyDrawn,
                   colorArgs, requested>>

\* the future is dropped without being polled
PresentAsyncDrop ==
    /\ phase = "open"
    /\ future = "created"
    /\ future' = "none"
    /\ ret' = Call("drop", <<>>, Ok, <<>>)
    /\ budget' = budget - 1
    /\ UNCHANGED <<phase, width, height, width_times_color, framebuffer, color,
                   window, pending, plotted, onlyDrawn,
                   colorArgs, requested>>

\* the windowing system queues an input event
EventArrives ==
    /\ phase = "open"
    /\ pending < MaxEvents
    /\ pending' = pending + 1
    /\ ret' = Call("event", <<>>, Ok, <<>>)
    /\ UNCHANGED <<phase, width, height, width_times_color, framebuffer, color,
                   window, future, plotted, onlyDrawn, budget,
                   colorArgs, requested>>

\* get_events(): the caller takes k events from the returned iterator
GetEvents(k) ==
    /\ Callable
    /\ pending' = pending - k
    /\ ret' = Call("get_events", <<>>, k, <<>>)
    /\ budget' = budget - 1
    /\ UNCHANGED <<phase, width, height, width_times_color, framebuffer, color,
                   window, future, plotted, onlyDrawn,
                   colorArgs, requested>>

\* save_img(path); fail: image::save_buffer returns Err
SaveImg(fail) ==
    /\ Callable
    /\ ret' = Call("save_img", <<fail>>,
                   IF fail THEN Err("SaveBMP") ELSE Ok,
                   <<<<"save_buffer", cast_slice(framebuffer), width, height, "Rgb8">>>>)
    /\ budget' = budget - 1
    /\ UNCHANGED <<phase, width, height, width_times_color, framebuffer, color,
                   window, pending, future, plotted, onlyDrawn,
                   colorArgs, requested>>

Next ==
    \/ \E d \in Sizes, fail \in Range(InitSteps) \cup {"none"} : New(d[1], d[2], fail)
    \/ \E c \in ColorInputs : SetColor(c[1], c[2], c[3])
    \/ \E x \in 0..width, y \in 0..height : PlotPixel(x, y)
    \/ \E s \in ShadowInputs : Clear(s)
    \/ \E c \in ClearRgbInputs : ClearWithRgb(c[1], c[2], c[3])
    \/ \E fail \in Range(PresentSteps) \cup {"none"} : Present(fail)
    \/ PresentAsyncCall
    \/ \E fail \in Range(PresentSteps) \cup {"none"} : PresentAsyncPoll(fail)
    \/ PresentAsyncDrop
    \/ EventArrives
    \/ \E k \in 0..pending : GetEvents(k)
    \/ \E fail \in BOOLEAN : SaveImg(fail)

Spec == Init /\ [][Next]_vars

\* The drawing loop alone: set_color, plot_pixel inside the surface, present
DrawInit == Start(MaxDrawCalls)

DrawNext ==
    \/ \E d \in Sizes, fail \in Range(InitSteps) \cup {"none"} : New(d[1], d[2], fail)
    \/ \E c \in ColorInputs : SetColor(c[1], c[2], c[3])
    \/ \E x \in 0..(width - 1), y \in 0..(height - 1) : PlotPixel(x, y)
    \/ \E fail \in Range(PresentSteps) \cup {"none"} : Present(fail)

DrawSpec == DrawInit /\ [][DrawNext]_vars

----------------------------------------------------------------------------
(* Properties *)

\* round(v * 255) as set_color and clear compute it: the f32 product, rounded
\* to the nearest integer
Round255(v) == F32Round(F32Mul255(v))

InRange(x, y) == x < width /\ y < height

Pixels == 1..Len(framebuffer)

\* the step just taken is a call of op
Did(op) == ret'.op = op

\* C1: after set_color(r,g,b) with r,g,b in [0,1] and then plot_pixel(x,y) with
\* 0 <= x < width, 0 <= y < height, the framebuffer entry y*width + x is
\* (round(r*255), round(g*255), round(b*255)).
C1_PlotWritesSetColor ==
    (/\ ret.op = "plot_pixel"
     /\ InRange(ret.args[1], ret.args[2])
     /\ colorArgs # <<>>
     /\ \A k \in 1..3 : InUnitRange(colorArgs[k]))
    => framebuffer[ret.args[2] * requested[1] + ret.args[1] + 1]
         = [r |-> Round255(colorArgs[1]),
            g |-> Round255(colorArgs[2]),
            b |-> Round255(colorArgs[3])]

\* set_color(0.7, 0.2, 0.5) and then plot_pixel(1, 1) on a 2x2 surface have
\* put (179, 51, 128) at index 3
C1_Witness ==
    /\ ret.op = "plot_pixel"
    /\ ret.args = <<1, 1>>
    /\ requested = <<2, 2>>
    /\ colorArgs = <<F32_0_7, F32_0_2, F32_0_5>>
    /\ framebuffer[4] = [r |-> 179, g |-> 51, b |-> 128]

\* C2 (as stated): plot_pixel(x,y) with x >= width or y >= height never changes
\* a pixel of the framebuffer.
C2_OutOfRangePlotChangesNothing ==
    [][(Did("plot_pixel") /\ ~InRange(ret'.args[1], ret'.args[2]))
         => framebuffer' = framebuffer]_vars

\* C3: plot_pixel(x,y) with valid (x,y) succeeds, sets the pixel at (x,y) to
\* the draw color and leaves every other pixel, the draw color, the width and
\* the height as they were.
C3_PlotChangesOnePixel ==
    [][(Did("plot_pixel") /\ InRange(ret'.args[1], ret'.args[2]))
         => /\ ret'.result = Ok
            /\ phase' = "open"
            /\ Len(framebuffer') = Len(framebuffer)
            /\ \A i \in Pixels :
                 framebuffer'[i] = IF i = ret'.args[2] * width + ret'.args[1] + 1
                                   THEN color ELSE framebuffer[i]
            /\ color' = color
            /\ width' = width
            /\ height' = height]_vars

\* plot_pixel(width-1, height-1) on a 2x2 surface changed the last pixel only
C3_Witness ==
    /\ ret.op = "plot_pixel"
    /\ ret.result = Ok
    /\ width = 2 /\ height = 2
    /\ ret.args = <<width - 1, height - 1>>
    /\ framebuffer[4] = color
    /\ color # [r |-> 0, g |-> 0, b |-> 0]
    /\ \A i \in 1..3 : framebuffer[i] = [r |-> 0, g |-> 0, b |-> 0]

\* the cases of PresentationError
PresentationErrors == {"CanvasCopy", "TextureUpdate", "TextureValue", "SaveCanvasBMP"}

\* C4: a present() that fails at texture creation, texture upload or render
\* copy returns a PresentationError case that no other failing step returns,
\* does not present the renderer, and leaves the framebuffer, the draw color,
\* the dimensions and the image in the window as they were.
C4_FailedPresentChangesNothing ==
    [][(Did("present") /\ ~ret'.result.ok)
         => /\ ret'.result.err \in PresentationErrors
            /\ \A t \in Range(PresentSteps) \ {ret'.args[1]} :
                 PresentationErrorFrom(PresentStepError(t)) # ret'.result.err
            /\ <<"present">> \notin Range(ret'.steps)
            /\ framebuffer' = framebuffer
            /\ color' = color
            /\ width' = width
            /\ height' = height
            /\ window' = window]_vars

\* a present() failed at the render copy after the framebuffer had changed
\* since the last successful present: the window still shows the old image
C4_Witness ==
    /\ ret.op = "present"
    /\ ret.args = <<"copy">>
    /\ ret.result = Err("CanvasCopy")
    /\ window # NoImage
    /\ window # framebuffer

\* the four sub-steps of construction the specification names
SubStep(step) ==
    CASE step = "init"       -> "subsystem init"
      [] step = "video"      -> "subsystem init"
      [] step = "window"     -> "window build"
      [] step = "canvas"     -> "renderer build"
      [] step = "event_pump" -> "event-source acquisition"

\* C5 (as stated): a failed new() returns an InitError variant that no other
\* sub-step's failure returns, and yields no usable surface.
C5_InitErrorIdentifiesSubStep ==
    (ret.op = "new" /\ ~ret.result.ok)
    => /\ phase = "failed"
       /\ \A t \in Range(InitSteps) :
            SubStep(t) # SubStep(ret.args[3])
            => InitErrorFrom(InitStepError(t)) # ret.result.err

\* C5 (amended): a failed new() yields no usable surface and returns
\* WindowBuildError for the window build, CanvasBuildError for the renderer
\* build, and Sdl2InitError both for subsystem init and for the event source.
C5_InitErrorVariants ==
    (ret.op = "new" /\ ~ret.result.ok)
    => /\ phase = "failed"
       /\ framebuffer = <<>>
       /\ ret.result.err =
            (CASE SubStep(ret.args[3]) = "subsystem init"           -> "Sdl2InitError"
               [] SubStep(ret.args[3]) = "window build"             -> "WindowBuildError"
               [] SubStep(ret.args[3]) = "renderer build"           -> "CanvasBuildError"
               [] SubStep(ret.args[3]) = "event-source acquisition" -> "Sdl2InitError")

\* new() failed when it asked for the event pump
C5_Witness ==
    /\ ret.op = "new"
    /\ ret.args[3] = "event_pump"
    /\ ret.result = Err("Sdl2InitError")
    /\ phase = "failed"

\* C6: after a successful new() every pixel and the draw color are (0,0,0);
\* as long as only set_color, plot_pixel inside the surface and present have
\* been called, a pixel never plotted is (0,0,0) and a plotted pixel holds the
\* draw color of its last plot.
C6_DrawnPixelsOnly ==
    /\ (ret.op = "new" /\ ret.result.ok)
       => /\ Len(framebuffer) = ret.args[1] * ret.args[2]
          /\ \A i \in Pixels : framebuffer[i] = [r |-> 0, g |-> 0, b |-> 0]
          /\ color = [r |-> 0, g |-> 0, b |-> 0]
    /\ (phase = "open" /\ onlyDrawn)
       => \A x \in 0..(width - 1), y \in 0..(height - 1) :
            framebuffer[y * width + x + 1] =
                IF plotted[<<x, y>>] = NoPixel
                THEN [r |-> 0, g |-> 0, b |-> 0]
                ELSE plotted[<<x, y>>]

\* the 2x2 form of the end-to-end scenario: red at (0,0), green at (1,1), the
\* other pixels black, and a present that succeeded and shows that image
C6_Witness ==
    /\ width = 2 /\ height = 2
    /\ onlyDrawn
    /\ ret.op = "present" /\ ret.result = Ok
    /\ framebuffer = << [r |-> 255, g |-> 0, b |-> 0], [r |-> 0, g |-> 0, b |-> 0],
                        [r |-> 0, g |-> 0, b |-> 0], [r |-> 0, g |-> 255, b |-> 0] >>
    /\ window = framebuffer

\* C7: after clear(s) with s in [0,1] every pixel is (round(s*255),
\* round(s*255), round(s*255)) whatever the framebuffer held, and a second
\* clear(s) leaves the framebuffer as the first one left it.
C7_ClearIsUniform ==
    [][(Did("clear") /\ InUnitRange(ret'.args[1]))
         => /\ Len(framebuffer') = Len(framebuffer)
            /\ \A i \in Pixels :
                 framebuffer'[i] = [r |-> Round255(ret'.args[1]),
                                    g |-> Round255(ret'.args[1]),
                                    b |-> Round255(ret'.args[1])]
            /\ (ret.op = "clear" /\ ret.args = ret'.args)
               => framebuffer' = framebuffer]_vars

\* clear(0.5) has turned a framebuffer with a plotted, colored pixel into a
\* uniform (128, 128, 128)
C7_Witness ==
    /\ ret.op = "clear"
    /\ ret.args = <<F32_0_5>>
    /\ Len(framebuffer) >= 2
    /\ \E c \in DOMAIN plotted :
         plotted[c] # NoPixel /\ plotted[c] # [r |-> 0, g |-> 0, b |-> 0]
    /\ \A i \in Pixels : framebuffer[i] = [r |-> 128, g |-> 128, b |-> 128]

\* C8: from a successful new(title, W, H) on, whatever is called, the
\* framebuffer holds W*H pixels and get_width() and get_height() are W and H.
C8_DimensionsFixed ==
    phase \in {"open", "panicked"}
    => /\ Len(framebuffer) = requested[1] * requested[2]
       /\ get_width = requested[1]
       /\ get_height = requested[2]

\* a 2x2 surface after every call the caller makes, the last one a clear
C8_Witness ==
    /\ phase = "open"
    /\ budget = 0
    /\ requested = <<2, 2>>
    /\ ret.op = "clear_with_rgb"
    /\ Len(framebuffer) = 4
    /\ get_width = 2 /\ get_height = 2

\* C9: only set_color changes the draw color, so a plot_pixel after clear or
\* clear_with_rgb writes the color of the last set_color (black before the
\* first).
C9_OnlySetColorChangesColor ==
    [][/\ (phase = "open" /\ ~Did("set_color")) => color' = color
       /\ (/\ Did("plot_pixel")
           /\ ret.op \in {"clear", "clear_with_rgb"}
           /\ InRange(ret'.args[1], ret'.args[2])
           /\ (colorArgs # <<>> => \A k \in 1..3 : InUnitRange(colorArgs[k])))
          => framebuffer'[ret'.args[2] * width + ret'.args[1] + 1] =
                IF colorArgs = <<>>
                THEN [r |-> 0, g |-> 0, b |-> 0]
                ELSE [r |-> Round255(colorArgs[1]),
                      g |-> Round255(colorArgs[2]),
                      b |-> Round255(colorArgs[3])]]_vars

\* set_color(1.0, 0.0, 0.0), clear_with_rgb(0.998, 0.002, 1.0), plot_pixel(0, 0):
\* the plotted pixel is red, the others hold the clear color
C9_Witness ==
    /\ ret.op = "plot_pixel"
    /\ ret.args = <<0, 0>>
    /\ colorArgs = <<F32_1, F32_0, F32_0>>
    /\ Len(framebuffer) >= 2
    /\ framebuffer[1] = [r |-> 255, g |-> 0, b |-> 0]
    /\ \A i \in 2..Len(framebuffer) : framebuffer[i] = [r |-> 254, g |-> 1, b |-> 255]
    /\ color = [r |-> 255, g |-> 0, b |-> 0]

\* what a present leaves: its result, the SDL calls it made, the window
Outcome == [result |-> ret'.result, steps |-> ret'.steps, window |-> window']

\* C10: from the same surface state and with the same failing step, present()
\* and an awaited present_async() return the same result, make the same SDL
\* calls in the same order (create texture, upload with stride width*3, copy,
\* present) and leave the same surface and the same image in the window.
C10_PresentAsyncEqualsPresent ==
    [][/\ Did("present") => Outcome = present_async(ret'.args[1])
       /\ Did("present_async.await") => Outcome = present(ret'.args[1])
       /\ (Did("present") \/ Did("present_async.await"))
          => /\ UNCHANGED <<framebuffer, color, width, height, width_times_color, phase>>
             /\ ret'.result.ok
                => /\ Len(ret'.steps) = 4
                   /\ ret'.steps[1][1] = "create_texture_streaming"
                   /\ ret'.steps[2][1] = "update"
                   /\ ret'.steps[2][3] = width * 3
                   /\ ret'.steps[3] = <<"copy">>
                   /\ ret'.steps[4] = <<"present">>
                   /\ window' = framebuffer]_vars

\* an awaited present_async() succeeded and the window shows a framebuffer
\* with a plotted pixel
C10_Witness ==
    /\ ret.op = "present_async.await"
    /\ ret.result = Ok
    /\ width = 2 /\ height = 2
    /\ window = framebuffer
    /\ \E i \in Pixels : framebuffer[i] # [r |-> 0, g |-> 0, b |-> 0]
    /\ \E i \in Pixels : framebuffer[i] = [r |-> 0, g |-> 0, b |-> 0]

====
